---- MODULE Spec2Model ----
(***************************************************************************)
(* A model of src/main.rs: the business-card ray tracer.                   *)
(*                                                                         *)
(*   - main: enumerates the pixels, queues one job per pixel on a thread   *)
(*     pool, receives the (index, color) results from a channel, sorts     *)
(*     them by index and writes result.ppm;                                *)
(*   - trace: the intersection test (ground plane, grid of unit spheres);  *)
(*   - sample: the recursive shader that calls trace.                      *)
(*                                                                         *)
(* Specifications:                                                         *)
(*   Spec       main and the pool's workers, no failure                    *)
(*   FairSpec   Spec with fair scheduling                                  *)
(*   FaultSpec  Spec plus a worker that panics and I/O errors              *)
(*   TraceSpec  trace applied to a bounded set of rays                     *)
(*   SampleSpec sample's call structure over a bounded set of rays         *)
(***************************************************************************)
EXTENDS Integers, Sequences, FiniteSets, TLC

VARIABLES
    pc,          \* main's position: "spawn", "recv", "create", "header", "pixels", "done", "panicked"
    idx,         \* the enumerate() counter of the spawn loop (next index to hand out)
    task_count,  \* main's task_count
    queue,       \* the pool's job queue (FIFO), jobs not yet picked up by a worker
    running,     \* jobs a worker is executing
    lost,        \* indices of jobs whose worker panicked before sending
    chan,        \* the mpsc channel: results sent and not yet received
    colors,      \* main's colors vector
    created,     \* result.ppm has been created
    out,         \* what has been written to result.ppm, in order
    seed,        \* the outcome of the run's random draws (r() is unseeded)
    submitted,   \* history: the jobs main has queued, in order
    computed,    \* history: index -> the color trace_pixel returned for it
    arrival,     \* history: the indices in the order main received them
    ray,         \* the ray trace is applied to (TraceSpec)
    tr,          \* the running call of trace: its arguments, loop position and locals
    hit,         \* what the last call of trace returned, until its caller takes it
    stack,       \* sample's call stack (SampleSpec)
    chain        \* history: the hit classes of the primary rays of the chain (SampleSpec)

schedVars == <<pc, idx, task_count, queue, running, lost, chan, colors, created, out,
               seed, submitted, computed, arrival>>

rtVars == <<ray, tr, hit, stack, chain>>

vars == <<schedVars, rtVars>>

(***************************************************************************)
(* Bounds of the model.                                                    *)
(***************************************************************************)
\* The image is WIDTH x WIDTH pixels (512 in the source).
WIDTH == 2
\* The number of pool threads (12 in the source).
POOL_SIZE == 2

\* The random draws of a run. r() is thread_rng().gen(): unseeded, so every
\* run draws differently. A run's draws are fixed by `seed`; the draw that
\* reaches the job with index i is bit (i mod 2) of the seed.
Seeds == 1..2

r(i, s) == (s \div (2 ^ (i % 2))) % 2

(***************************************************************************)
(* V::c : a color as three clamped bytes.                                  *)
(***************************************************************************)
clamp(v, lo, hi) == IF v < lo THEN lo ELSE IF v > hi THEN hi ELSE v

c(v) == << clamp(v[1], 0, 255), clamp(v[2], 0, 255), clamp(v[3], 0, 255) >>

(***************************************************************************)
(* The pixel enumeration of main.                                          *)
(***************************************************************************)
\* a..b (exclusive of b) as a sequence: a, a+1, ..., b-1
range(a, b) == [m \in 1..(b - a) |-> a + m - 1]

\* (1..=n).rev() as a sequence: n, n-1, ..., 1
rev_range(n) == [m \in 1..n |-> n - m + 1]

\* iproduct!(A, B): the first iterator is the outer (slowest) one
iproduct(A, B) ==
    [m \in 1..(Len(A) * Len(B)) |->
        << A[((m - 1) \div Len(B)) + 1], B[((m - 1) % Len(B)) + 1] >>]

pixel_tasks == iproduct(rev_range(WIDTH), rev_range(WIDTH))

\* The job main queues for item (i, pixel) of pixel_tasks.enumerate(): the
\* closure calls trace_pixel(pixel.1, pixel.0, av, bv, cv, i), and the
\* parameters of trace_pixel are (x, y, av, bv, cv, i)
Job_swapped(i, pixel) == [i |-> i, x |-> pixel[1], y |-> pixel[2]]

Job(i, pixel) == [i |-> i, x |-> pixel[2], y |-> pixel[1]]

\* The color trace_pixel accumulates for pixel (x, y): it starts from
\* (13, 13, 13) and adds the gained samples, which depend on the pixel and on
\* the random draws. The sum is not clamped: a channel may leave 0..255.
accumulate(x, y, rnd) ==
    << 13 + 130 * (x - 1), 13 + 100 * (y - 1) - 150 * rnd, 13 + 60 * rnd >>

\* trace_pixel returns the index it was given with the accumulated color p
trace_pixel(job, s) == << job.i, accumulate(job.x, job.y, r(job.i, s)) >>

(***************************************************************************)
(* colors.sort_by(|a, b| a.0.cmp(&b.0)): a stable sort on the index.       *)
(***************************************************************************)
\* The place of element i of s after the sort: the elements with a smaller
\* index go before it, and so do the earlier ones with an equal index
sorted_position(s, i) ==
    Cardinality({j \in 1..Len(s) : s[j][1] < s[i][1] \/ (s[j][1] = s[i][1] /\ j <= i)})

sort_by_missing(s) == s

sort_by(s) ==
    [n \in 1..Len(s) |-> s[CHOOSE i \in 1..Len(s) : sorted_position(s, i) = n]]

\* rx.iter().take(task_count): the iterator ends after task_count items
take_exhausted_early(taken, n) == taken >= n - 1

take_exhausted_late(taken, n) == taken >= n + 1

take_exhausted(taken, n) == taken >= n

\* format!("P6 {} {} 255 ", WIDTH, WIDTH)
Header == << "P6", WIDTH, WIDTH, 255 >>

(***************************************************************************)
(* Initial state: main has built the pool and the channel.                 *)
(***************************************************************************)
SchedInit ==
    /\ pc = "spawn"
    /\ idx = 0
    /\ task_count = 0
    /\ queue = <<>>
    /\ running = {}
    /\ lost = {}
    /\ chan = <<>>
    /\ colors = <<>>
    /\ created = FALSE
    /\ out = <<>>
    /\ submitted = <<>>
    /\ computed = <<>>
    /\ arrival = <<>>

RtIdle ==
    /\ ray = <<>>
    /\ tr = <<>>
    /\ hit = <<>>
    /\ stack = <<>>
    /\ chain = <<>>

Init ==
    /\ SchedInit
    /\ seed \in Seeds
    /\ RtIdle

(***************************************************************************)
(* main                                                                    *)
(***************************************************************************)
\* One iteration of `for (i, pixel) in pixel_tasks.enumerate()`
Submit ==
    /\ pc = "spawn"
    /\ idx < Len(pixel_tasks)
    /\ queue' = Append(queue, Job(idx, pixel_tasks[idx + 1]))
    /\ submitted' = Append(submitted, Job(idx, pixel_tasks[idx + 1]))
    /\ idx' = idx + 1
    /\ task_count' = task_count + 1
    /\ UNCHANGED <<pc, running, lost, chan, colors, created, out, seed, computed, arrival>>
    /\ UNCHANGED rtVars

\* The iterator is exhausted: main goes on to receive
SpawnDone ==
    /\ pc = "spawn"
    /\ idx = Len(pixel_tasks)
    /\ pc' = "recv"
    /\ UNCHANGED <<idx, task_count, queue, running, lost, chan, colors, created, out,
                   seed, submitted, computed, arrival>>
    /\ UNCHANGED rtVars

\* One item of rx.iter().take(task_count): a blocking receive
Receive ==
    /\ pc = "recv"
    /\ ~take_exhausted(Len(colors), task_count)
    /\ chan # <<>>
    /\ colors' = Append(colors, Head(chan))
    /\ arrival' = Append(arrival, Head(chan)[1])
    /\ chan' = Tail(chan)
    /\ UNCHANGED <<pc, idx, task_count, queue, running, lost, created, out,
                   seed, submitted, computed>>
    /\ UNCHANGED rtVars

\* take() ends, collect() returns, and the vector is sorted
Collected ==
    /\ pc = "recv"
    /\ take_exhausted(Len(colors), task_count)
    /\ colors' = sort_by(colors)
    /\ pc' = "create"
    /\ UNCHANGED <<idx, task_count, queue, running, lost, chan, created, out,
                   seed, submitted, computed, arrival>>
    /\ UNCHANGED rtVars

\* File::create("result.ppm").unwrap()
Create ==
    /\ pc = "create"
    /\ created' = TRUE
    /\ pc' = "header"
    /\ UNCHANGED <<idx, task_count, queue, running, lost, chan, colors, out,
                   seed, submitted, computed, arrival>>
    /\ UNCHANGED rtVars

\* out.write(format!(..).as_bytes()).unwrap()
WriteHeader ==
    /\ pc = "header"
    /\ out' = Append(out, Header)
    /\ pc' = "pixels"
    /\ UNCHANGED <<idx, task_count, queue, running, lost, chan, colors, created,
                   seed, submitted, computed, arrival>>
    /\ UNCHANGED rtVars

\* The number of pixels written so far
written == IF out = <<>> THEN 0 ELSE (Len(out) - 1) \div 3

\* One iteration of `for color in colors.iter()`: three bytes
WritePixel ==
    /\ pc = "pixels"
    /\ written < Len(colors)
    /\ out' = out \o c(colors[written + 1][2])
    /\ UNCHANGED <<pc, idx, task_count, queue, running, lost, chan, colors, created,
                   seed, submitted, computed, arrival>>
    /\ UNCHANGED rtVars

\* The loop ends; main prints " done." and returns
Finish ==
    /\ pc = "pixels"
    /\ written = Len(colors)
    /\ pc' = "done"
    /\ UNCHANGED <<idx, task_count, queue, running, lost, chan, colors, created, out,
                   seed, submitted, computed, arrival>>
    /\ UNCHANGED rtVars

\* An unwrap() of main on an I/O error: the process panics
IoError ==
    /\ pc \in {"create", "header", "pixels"}
    /\ pc' = "panicked"
    /\ UNCHANGED <<idx, task_count, queue, running, lost, chan, colors, created, out,
                   seed, submitted, computed, arrival>>
    /\ UNCHANGED rtVars

(***************************************************************************)
(* The pool's workers                                                      *)
(***************************************************************************)
\* rx lives until main returns or unwinds
rx_alive == pc \notin {"done", "panicked"}

\* An idle worker takes the oldest queued job
Start ==
    /\ queue # <<>>
    /\ Cardinality(running) < POOL_SIZE
    /\ running' = running \cup {Head(queue)}
    /\ queue' = Tail(queue)
    /\ UNCHANGED <<pc, idx, task_count, lost, chan, colors, created, out,
                   seed, submitted, computed, arrival>>
    /\ UNCHANGED rtVars

\* A worker finishes its job: tx.send(trace_pixel(..)).unwrap()
\* The channel is unbounded, so send never waits; it fails only when rx is
\* gone, and then unwrap() panics the worker.
Complete(job) ==
    /\ job \in running
    /\ running' = running \ {job}
    /\ computed' = (job.i :> trace_pixel(job, seed)[2]) @@ computed
    /\ IF rx_alive
       THEN chan' = Append(chan, trace_pixel(job, seed)) /\ lost' = lost
       ELSE chan' = chan /\ lost' = lost \cup {job.i}
    /\ UNCHANGED <<pc, idx, task_count, queue, colors, created, out,
                   seed, submitted, arrival>>
    /\ UNCHANGED rtVars

\* A worker panics inside its job before it sends (the pool replaces the
\* thread; nothing tells main)
Panic(job) ==
    /\ job \in running
    /\ running' = running \ {job}
    /\ lost' = lost \cup {job.i}
    /\ UNCHANGED <<pc, idx, task_count, queue, chan, colors, created, out,
                   seed, submitted, computed, arrival>>
    /\ UNCHANGED rtVars

MainStep ==
    \/ Submit
    \/ SpawnDone
    \/ Receive
    \/ Collected
    \/ Create
    \/ WriteHeader
    \/ WritePixel
    \/ Finish

Next ==
    \/ MainStep
    \/ Start
    \/ \E job \in running : Complete(job)

Spec == Init /\ [][Next]_vars

\* Workers and main are threads the OS schedules fairly
FairSpec == Spec /\ WF_vars(Next)

FaultNext ==
    \/ Next
    \/ IoError
    \/ \E job \in running : Panic(job)

FaultSpec == Init /\ [][FaultNext]_vars

(***************************************************************************)
(* Claims about main and the pool                                          *)
(***************************************************************************)
NTasks == WIDTH * WIDTH

\* main has left the receive: the buffer it will write is fixed
Assembled == pc \in {"create", "header", "pixels", "done"}

\* The bytes written for pixel number n (1-based) of the file
PixelBytes(n) == SubSeq(out, 3 * n - 1, 3 * n + 1)

\* C1: whatever the order in which the results arrived, the buffer main
\* writes is the results in ascending index 0, 1, ..., W*W-1, each with the
\* color the job with that index computed, and the bytes written follow it.
C1_Reassembly ==
    Assembled =>
        /\ colors = [n \in 1..NTasks |-> << n - 1, computed[n - 1] >>]
        /\ \A n \in 1..written : PixelBytes(n) = c(computed[n - 1])

\* The image is complete and the results did not arrive in index order
C1_Witness ==
    /\ pc = "done"
    /\ written = NTasks
    /\ \E n \in 1..(Len(arrival) - 1) : arrival[n] > arrival[n + 1]

\* C2: main queues exactly W*W jobs, job i for pixel y = W - (i div W),
\* x = W - (i mod W), every pixel of 1..W x 1..W and every index of
\* 0..W*W-1 once; the file is the header then three bytes per result.
C2_Enumeration ==
    /\ \A n \in 1..Len(submitted) :
          /\ submitted[n].i = n - 1
          /\ submitted[n].y = WIDTH - ((n - 1) \div WIDTH)
          /\ submitted[n].x = WIDTH - ((n - 1) % WIDTH)
    /\ pc # "spawn" =>
          /\ Len(submitted) = NTasks
          /\ task_count = NTasks
          /\ {<<submitted[n].y, submitted[n].x>> : n \in 1..NTasks} = (1..WIDTH) \X (1..WIDTH)
          /\ {submitted[n].i : n \in 1..NTasks} = 0..(NTasks - 1)
    /\ out # <<>> =>
          /\ out[1] = << "P6", WIDTH, WIDTH, 255 >>
          /\ Len(out) = 1 + 3 * written
          /\ \A n \in 2..Len(out) : out[n] \in 0..255
    /\ pc = "done" => Len(out) = 1 + 3 * NTasks

C2_Witness ==
    /\ pc = "done"
    /\ Len(out) = 1 + 3 * NTasks
    /\ \E n \in 1..NTasks : submitted[n].x # submitted[n].y

\* C3: the file is not created and nothing is written until main has
\* received all W*W results; the header is the first thing written.
C3_NoPartialOutput ==
    /\ (created \/ out # <<>>) =>
          /\ pc \notin {"spawn", "recv"}
          /\ {arrival[n] : n \in 1..Len(arrival)} = 0..(NTasks - 1)
          /\ Len(colors) = NTasks
    /\ out # <<>> => (created /\ out[1] = Header)

C3_Witness ==
    /\ created
    /\ Len(out) > 1

\* Every index is sent at most once, and never by two places at a time
SentOnce ==
    LET sent == [n \in 1..(Len(chan) + Len(arrival)) |->
                    IF n <= Len(arrival) THEN arrival[n] ELSE chan[n - Len(arrival)][1]]
    IN  /\ \A a, b \in 1..Len(sent) : a # b => sent[a] # sent[b]
        /\ \A n \in 1..Len(sent) : sent[n] \in DOMAIN computed

\* Nothing waits but the receive: main can always take its next step unless
\* it is receiving from an empty channel, and a running job can always send
OnlyReceiveWaits ==
    /\ (pc \notin {"done", "recv"}) => ENABLED MainStep
    /\ (pc = "recv" /\ ~ENABLED MainStep) => chan = <<>>
    /\ \A job \in running : ENABLED Complete(job)
    /\ (queue # <<>> /\ Cardinality(running) < POOL_SIZE) => ENABLED Start

\* C4: with fair scheduling and jobs that terminate, every queued job runs
\* and sends exactly one result, no send waits, the receive of W*W results
\* ends although main's own sender is never dropped, and main finishes.
C4_Completion ==
    /\ <>(pc = "done" /\ DOMAIN computed = 0..(NTasks - 1) /\ written = NTasks)
    /\ [](SentOnce /\ OnlyReceiveWaits)

C4_Witness ==
    /\ pc = "done"
    /\ queue = <<>> /\ running = {} /\ chan = <<>>
    /\ DOMAIN computed = 0..(NTasks - 1)
    /\ Len(arrival) = NTasks

\* main waits for a result that nothing will ever send
Hung ==
    /\ pc = "recv"
    /\ ~take_exhausted(Len(colors), task_count)
    /\ chan = <<>> /\ queue = <<>> /\ running = {}

\* C5: when a worker vanishes before sending its result, the run is
\* aborted: main writes no image from the incomplete results and does not
\* keep waiting for the missing one.
C5_WorkerFailureIsFatal ==
    lost # {} => (~created /\ out = <<>> /\ ~Hung)

(***************************************************************************)
(* Vectors (struct V) with integer components                              *)
(***************************************************************************)
\* impl Add for V
add(a, b) == << a[1] + b[1], a[2] + b[2], a[3] + b[3] >>

\* impl Rem for V: the dot product
rem(a, b) == a[1] * b[1] + a[2] * b[2] + a[3] * b[3]

(***************************************************************************)
(* Distances. trace computes in f32; on the integer rays of the model the  *)
(* distances are the numbers (n - sqrt(q)) / e with integers n, q >= 0 and *)
(* e > 0, and they are compared exactly. The other values a distance takes *)
(* are f32::MAX, the infinities and NaN.                                   *)
(***************************************************************************)
Fin(n, q, e) == [kind |-> "fin", n |-> n, q |-> q, e |-> e]

F32_MAX == [kind |-> "max"]

\* -o.z / d.z, where nz says that a zero d.z is the negative zero
neg_div(oz, dz, nz) ==
    IF dz < 0 THEN Fin(oz, 0, -dz)
    ELSE IF dz > 0 THEN Fin(-oz, 0, dz)
    ELSE IF oz = 0 THEN [kind |-> "nan"]
    ELSE IF (oz < 0) # nz THEN [kind |-> "pinf"]
    ELSE [kind |-> "ninf"]

\* The denominator of the epsilon 0.01
EPS_DEN == 100

\* v > 0.01
gt_eps(v) ==
    CASE v.kind = "fin" ->
            /\ EPS_DEN * v.n - v.e > 0
            /\ (EPS_DEN * v.n - v.e) * (EPS_DEN * v.n - v.e) > EPS_DEN * EPS_DEN * v.q
      [] v.kind \in {"max", "pinf"} -> TRUE
      [] OTHER -> FALSE

\* a < b for finite a and b: a.n*b.e - b.n*a.e < sqrt(A) - sqrt(B)
\* with A = a.q * b.e^2 and B = b.q * a.e^2
lt_fin(a, b) ==
    LET D == a.n * b.e - b.n * a.e
        A == a.q * b.e * b.e
        B == b.q * a.e * a.e
        M == A + B - D * D
    IN  IF D < 0
        THEN A >= B \/ M < 0 \/ 4 * A * B > M * M
        ELSE A > B /\ M > 0 /\ 4 * A * B < M * M

\* a < b, for a finite a
lt(a, b) ==
    CASE b.kind = "fin" -> lt_fin(a, b)
      [] b.kind \in {"max", "pinf"} -> TRUE
      [] OTHER -> FALSE

(***************************************************************************)
(* trace                                                                   *)
(***************************************************************************)
\* let g = [202766, 202779, 6150, 6152, 7579, 5902];
g == << 202766, 202779, 6150, 6152, 7579, 5902 >>

\* g[j] & 1<<k > 0, for j counted from 0
bit_set(j, k) == ((g[j + 1] \div (2 ^ k)) % 2) * (2 ^ k) > 0

\* The columns the loop scans: 0..19
COLUMNS == 19

\* iproduct!(0..19, 0..g.len()): items (k, j)
sphere_cells_short == iproduct(range(0, COLUMNS), range(0, Len(g) - 1))

sphere_cells == iproduct(range(0, COLUMNS), range(0, Len(g)))

\* V{x: -k as f32, y: 0.0, z: -(j as f32) - 4.0}
cell_offset_mirrored(k, j) == << -k, 0, j + 4 >>

cell_offset(k, j) == << -k, 0, -j - 4 >>

\* n = !(p + *d * t): the unit vector along p + d*t
unit(p, d, t) == [kind |-> "unit", p |-> p, d |-> d, t |-> t]

UP == [kind |-> "vec", v |-> << 0, 0, 1 >>]

\* if s < t && s > 0.01
accepts_or_equal(s, t) == (lt(s, t) \/ (t.kind = "fin" /\ ~lt(t, s))) /\ gt_eps(s)

accepts(s, t) == lt(s, t) /\ gt_eps(s)

\* The floor test: if p > 0.01 { t = p; m = 1; }
floor_hit_flipped(p) == ~gt_eps(p)

floor_hit(p) == gt_eps(p)

\* The body of the loop for cell (k, j). st holds the arguments o, d and
\* the locals m, t, n, with two history fields: tested, the cells whose
\* sphere test ran, and accepted, the cells whose hit replaced the best one.
cell_body(st, k, j) ==
    IF bit_set(j, k)
    THEN LET p == add(st.o, cell_offset(k, j))
             b == rem(p, st.d)
             cc == rem(p, p) - 1
             q == b * b - cc
             s == Fin(-b, q, 1)
             seen == Append(st.tested, [j |-> j, k |-> k, p |-> p, c |-> cc])
         IN  IF q > 0 /\ accepts(s, st.t)
             THEN [st EXCEPT !.m = 2, !.t = s, !.n = unit(p, st.d, s), !.tested = seen,
                             !.accepted = Append(st.accepted, <<j, k>>)]
             ELSE [st EXCEPT !.tested = seen]
    ELSE st

\* The start of trace(o, d): t = f32::MAX, m = 0, n = (0, 0, 1), then the
\* floor test, then the loop from its first cell
trace_entry(rr) ==
    LET p == neg_div(rr.o[3], rr.d[3], rr.nz)
        st0 == [o |-> rr.o, d |-> rr.d, nz |-> rr.nz, i |-> 1,
                m |-> 0, t |-> F32_MAX, n |-> UP, tested |-> <<>>, accepted |-> <<>>]
    IN  IF floor_hit(p) THEN [st0 EXCEPT !.m = 1, !.t = p] ELSE st0

\* One iteration of `for (k, j) in iproduct!(0..19, 0..g.len())`
TraceCell ==
    /\ tr # <<>>
    /\ tr.i <= Len(sphere_cells)
    /\ tr' = [cell_body(tr, sphere_cells[tr.i][1], sphere_cells[tr.i][2]) EXCEPT !.i = tr.i + 1]
    /\ UNCHANGED <<ray, hit, stack, chain>>
    /\ UNCHANGED schedVars

\* The loop is over: trace returns (m, t, n)
TraceReturn ==
    /\ tr # <<>>
    /\ tr.i > Len(sphere_cells)
    /\ hit' = tr
    /\ tr' = <<>>
    /\ UNCHANGED <<ray, stack, chain>>
    /\ UNCHANGED schedVars

(***************************************************************************)
(* TraceSpec: trace applied to each ray of a bounded set                   *)
(***************************************************************************)
\* Origins reach this far from the first spheres of the grid
REACH == 3

Origins == (0..1) \X (-REACH..0) \X (-1..(REACH + 3))

\* Directions need not be unit vectors: trace takes any d
Directions ==
    {d \in (-1..1) \X (-1..1) \X (-1..1) : d # <<0, 0, 0>>}
        \cup {<<0, 0, -2>>, <<0, 2, -1>>, <<2, 0, -1>>}

\* nz (d.z is the negative zero) only matters for a zero d.z
Rays ==
    {rr \in [o : Origins, d : Directions, nz : BOOLEAN] : rr.nz => rr.d[3] = 0}

TraceInit ==
    /\ SchedInit
    /\ seed = 0
    /\ ray \in Rays
    /\ tr = <<>>
    /\ hit = <<>>
    /\ stack = <<>>
    /\ chain = <<>>

\* A caller calls trace(&ray.o, &ray.d)
TraceCall ==
    /\ tr = <<>>
    /\ hit = <<>>
    /\ tr' = trace_entry(ray)
    /\ UNCHANGED <<ray, hit, stack, chain>>
    /\ UNCHANGED schedVars

TraceNext ==
    \/ TraceCall
    \/ TraceCell
    \/ TraceReturn

TraceSpec == TraceInit /\ [][TraceNext]_vars

(***************************************************************************)
(* Claims about trace                                                      *)
(***************************************************************************)
\* The cells of the grid that hold a sphere, over every bit of an i32 row
Occupied == {cell \in (0..(Len(g) - 1)) \X (0..30) : bit_set(cell[1], cell[2])}

\* The floor candidate of the traced ray: -o.z / d.z
FloorCand == neg_div(ray.o[3], ray.d[3], ray.nz)

\* The candidate of the unit sphere centered at ctr: s = -b - sqrt(q) with
\* p = o - ctr, b = p.d, q = b*b - (p.p - 1)
SphereB(ctr) == rem(add(ray.o, << -ctr[1], -ctr[2], -ctr[3] >>), ray.d)

SphereQ(ctr) ==
    LET p == add(ray.o, << -ctr[1], -ctr[2], -ctr[3] >>)
    IN  SphereB(ctr) * SphereB(ctr) - (rem(p, p) - 1)

SphereCand(ctr) == Fin(-SphereB(ctr), SphereQ(ctr), 1)

\* The valid sphere candidates, the spheres being at (k, 0, j + 4)
SphereCands ==
    {SphereCand(<< cell[2], 0, cell[1] + 4 >>) : cell \in
        {cc \in Occupied : /\ SphereQ(<< cc[2], 0, cc[1] + 4 >>) > 0
                           /\ gt_eps(SphereCand(<< cc[2], 0, cc[1] + 4 >>))}}

\* a is strictly nearer than b
Nearer(a, b) == a.kind = "fin" /\ lt(a, b)

Returned == hit # <<>>

\* The cells whose sphere test ran during the call
TestedCells == {<< hit.tested[n].j, hit.tested[n].k >> : n \in 1..Len(hit.tested)}

\* C6 as stated: a downward ray with -o.z/d.z > 0.01 returns the ground
\* class with that distance and normal (0, 0, 1), whatever the spheres.
C6_GroundAlways ==
    (Returned /\ ray.d[3] < 0 /\ gt_eps(FloorCand)) =>
        (hit.m = 1 /\ hit.t = FloorCand /\ hit.n = UP)

\* C6 as amended: a downward ray with -o.z/d.z > 0.01 returns the ground
\* class with exactly that distance and normal (0, 0, 1) unless a valid
\* sphere candidate is strictly nearer, and then it returns class 2.
C6_GroundUnlessNearerSphere ==
    (Returned /\ ray.d[3] < 0 /\ gt_eps(FloorCand)) =>
        IF \E s \in SphereCands : Nearer(s, FloorCand)
        THEN hit.m = 2
        ELSE hit.m = 1 /\ hit.t = FloorCand /\ hit.n = UP

\* A downward ray keeps the ground hit although a sphere candidate is valid
C6_Witness ==
    /\ Returned /\ ray.d[3] < 0 /\ gt_eps(FloorCand)
    /\ hit.m = 1 /\ hit.t = FloorCand
    /\ SphereCands # {}

\* C7: trace returns class 0 exactly when no candidate is valid; otherwise
\* the distance is the least valid candidate, and the class is 2 exactly
\* when a valid sphere candidate is strictly nearer than the floor's or the
\* floor's is not valid. The candidates are a set: no scan order enters.
C7_NearestValidHit ==
    Returned =>
        LET floor == IF gt_eps(FloorCand) THEN {FloorCand} ELSE {}
            all == floor \cup SphereCands
        IN  /\ hit.m \in {0, 1, 2}
            /\ hit.m = 0 <=> all = {}
            /\ hit.m # 0 => (hit.t \in all /\ \A cand \in all : ~Nearer(cand, hit.t))
            /\ hit.m = 2 <=> \E s \in SphereCands : \A f \in floor : Nearer(s, f)

\* The ground hit stands although a sphere candidate is at the same distance
C7_Witness ==
    /\ Returned /\ hit.m = 1 /\ hit.t.kind = "fin"
    /\ \E s \in SphereCands : ~lt(s, hit.t) /\ ~lt(hit.t, s)

\* The center of the sphere a recorded test was about: p = o - center
TestedCenter(e) == add(ray.o, << -e.p[1], -e.p[2], -e.p[3] >>)

\* C8 as stated: a set bit k of row j means a unit sphere centered at
\* (k, 0, -j - 4) is tested; a clear bit means no test.
C8_CenterBelow ==
    Returned =>
        /\ TestedCells = Occupied
        /\ \A n \in 1..Len(hit.tested) :
              LET e == hit.tested[n]
              IN  /\ TestedCenter(e) = << e.k, 0, -e.j - 4 >>
                  /\ e.c = rem(e.p, e.p) - 1

\* C8 as amended: a set bit k of row j means a unit sphere centered at
\* (k, 0, j + 4) is tested; a clear bit means no test.
C8_CenterAbove ==
    Returned =>
        /\ TestedCells = Occupied
        /\ \A n \in 1..Len(hit.tested) :
              LET e == hit.tested[n]
              IN  /\ TestedCenter(e) = << e.k, 0, e.j + 4 >>
                  /\ e.c = rem(e.p, e.p) - 1

C8_Witness ==
    /\ Returned /\ hit.m = 2
    /\ \E n \in 1..Len(hit.tested) : hit.tested[n].j > 0 /\ hit.tested[n].k > 0

\* C9: every call of trace tests every occupied cell of the live grid once:
\* each set bit lies in columns 0..18 of rows 0..5, and the scan goes on
\* after a hit is found.
C9_FullScan ==
    Returned =>
        /\ g = << 202766, 202779, 6150, 6152, 7579, 5902 >>
        /\ Occupied \subseteq (0..(Len(g) - 1)) \X (0..18)
        /\ TestedCells = Occupied
        /\ Len(hit.tested) = Cardinality(Occupied)
        /\ hit.i = 19 * Len(g) + 1

\* A hit was found and cells after it were still tested
C9_Witness ==
    /\ Returned /\ hit.accepted # <<>>
    /\ \E n \in 1..(Len(hit.tested) - 1) :
          << hit.tested[n].j, hit.tested[n].k >> = hit.accepted[Len(hit.accepted)]

(***************************************************************************)
(* sample: its calls of trace and of itself. The colors it computes are    *)
(* left out. The hit point h, the light direction l (jittered by r()) and  *)
(* the reflected direction rv are irrational functions of the hit, so the  *)
(* shadow ray (h, l), the sign of b = l % n and the reflected ray (h, rv)  *)
(* are drawn from a bounded set: every outcome the arithmetic can have is  *)
(* among the choices.                                                      *)
(***************************************************************************)
\* The deepest chain of sample calls the model follows
MAX_DEPTH == 2

SampleRays ==
    {rr \in Rays : /\ rr.o \in {<<0, -3, 4>>, <<1, -3, 4>>}
                   /\ rr.d \in {<<0, 0, 1>>, <<0, 0, -1>>, <<0, 1, 0>>}
                   /\ ~rr.nz}

\* A call of sample(o, d): calls and traces count the calls of sample and
\* of trace this invocation has made
Frame(rr) == [ray |-> rr, pc |-> "start", m |-> 0, calls |-> 0, traces |-> 0]

Top == stack[Len(stack)]

SetTop(f) == [stack EXCEPT ![Len(stack)] = f]

\* The inner `match m` after the shadow test: 1 => the checkerboard color,
\* _ => the reflection bounce
after_light_always(m) == "bounce"

after_light(m) == IF m = 1 THEN "ret" ELSE "bounce"

SampleInit ==
    /\ SchedInit
    /\ seed = 0
    /\ ray = <<>>
    /\ tr = <<>>
    /\ hit = <<>>
    /\ stack \in {<< Frame(rr) >> : rr \in SampleRays}
    /\ chain = <<>>

\* let (m, t, n) = trace(o, d): the call
SamplePrimary ==
    /\ stack # <<>> /\ Top.pc = "start"
    /\ tr = <<>> /\ hit = <<>>
    /\ tr' = trace_entry(Top.ray)
    /\ stack' = SetTop([Top EXCEPT !.pc = "primary", !.traces = @ + 1])
    /\ UNCHANGED <<ray, hit, chain>>
    /\ UNCHANGED schedVars

\* trace has returned: `match m`, 0 => the sky color
SampleClassify ==
    /\ stack # <<>> /\ Top.pc = "primary"
    /\ hit # <<>>
    /\ stack' = SetTop([Top EXCEPT !.m = hit.m,
                                   !.pc = IF hit.m = 0 THEN "ret" ELSE "light"])
    /\ chain' = Append(chain, hit.m)
    /\ hit' = <<>>
    /\ UNCHANGED <<ray, tr>>
    /\ UNCHANGED schedVars

\* if b < 0.0 || trace(&h, &l).0 > 0: with b < 0 the shadow ray is not traced
SampleUnlit ==
    /\ stack # <<>> /\ Top.pc = "light"
    /\ stack' = SetTop([Top EXCEPT !.pc = after_light(Top.m)])
    /\ UNCHANGED <<ray, tr, hit, chain>>
    /\ UNCHANGED schedVars

\* if b < 0.0 || trace(&h, &l).0 > 0: the call of trace for the shadow ray
SampleShadow ==
    /\ stack # <<>> /\ Top.pc = "light"
    /\ tr = <<>> /\ hit = <<>>
    /\ \E rr \in SampleRays : tr' = trace_entry(rr)
    /\ stack' = SetTop([Top EXCEPT !.pc = "shadow", !.traces = @ + 1])
    /\ UNCHANGED <<ray, hit, chain>>
    /\ UNCHANGED schedVars

\* The shadow trace has returned; only its class is used, for b
SampleShadowed ==
    /\ stack # <<>> /\ Top.pc = "shadow"
    /\ hit # <<>>
    /\ hit' = <<>>
    /\ stack' = SetTop([Top EXCEPT !.pc = after_light(Top.m)])
    /\ UNCHANGED <<ray, tr, chain>>
    /\ UNCHANGED schedVars

\* V{x: p, y: p, z: p} + sample(&h, &rv) * 0.5: the recursive call
SampleBounce ==
    /\ stack # <<>> /\ Top.pc = "bounce"
    /\ Len(stack) < MAX_DEPTH
    /\ \E rr \in SampleRays :
          stack' = Append(SetTop([Top EXCEPT !.pc = "reflect", !.calls = @ + 1]), Frame(rr))
    /\ UNCHANGED <<ray, tr, hit, chain>>
    /\ UNCHANGED schedVars

\* sample returns its color; a caller waiting for the bounce returns next
SampleReturn ==
    /\ stack # <<>> /\ Top.pc = "ret"
    /\ stack' = IF Len(stack) = 1 THEN <<>>
                ELSE [SubSeq(stack, 1, Len(stack) - 1) EXCEPT ![Len(stack) - 1].pc = "ret"]
    /\ UNCHANGED <<ray, tr, hit, chain>>
    /\ UNCHANGED schedVars

SampleNext ==
    \/ SamplePrimary
    \/ SampleClassify
    \/ SampleUnlit
    \/ SampleShadow
    \/ SampleShadowed
    \/ SampleBounce
    \/ SampleReturn
    \/ TraceCell
    \/ TraceReturn

SampleSpec == SampleInit /\ [][SampleNext]_vars

\* C10: an invocation of sample calls itself at most once, and only on a
\* sphere hit (class 2); sky and ground hits return without recursing; the
\* shadow test calls trace, never sample. So the evaluation ends exactly
\* when the chain of reflected rays reaches a sky or ground hit.
C10_RecursionShape ==
    /\ \A n \in 1..Len(stack) :
          LET f == stack[n]
          IN  /\ f.calls <= 1
              /\ f.calls = 1 => f.m = 2
              /\ f.traces <= 2
              /\ f.pc = "ret" => (f.calls = 1 <=> f.m = 2)
              /\ f.pc = "reflect" <=> n < Len(stack)
              /\ f.pc = "shadow" => f.calls = 0
    /\ \A n \in 1..(Len(chain) - 1) : chain[n] = 2
    /\ Len(stack) <= Len(chain) + 1
    /\ (chain # <<>> /\ chain[Len(chain)] \in {0, 1}) =>
          \A n \in 1..Len(stack) : stack[n].pc \in {"light", "shadow", "ret", "reflect"}
    /\ stack = <<>> => (chain # <<>> /\ chain[Len(chain)] \in {0, 1})

\* A ray was reflected by a sphere and the evaluation ended
C10_Witness ==
    /\ stack = <<>>
    /\ Len(chain) >= 2
    /\ chain[1] = 2

====
